---- MODULE Spec2Model ----
(***************************************************************************)
(* Model of tesla_temperature_reporter/src/main.rs: the calibration curve  *)
(* (FanSpeedTable), the rolling window (CircleBuf) and the monitoring loop *)
(* of inner_main.                                                          *)
(*                                                                         *)
(* Numbers.  Loads (f64 fractions of the power limit) are exact rationals  *)
(* num/(den*Scale), i.e. counted in hundredths; the f64 arithmetic of      *)
(* lookup_speed is modelled by exact rational arithmetic followed by the   *)
(* truncating `as u8` cast.  Where the exact result is a whole number the  *)
(* f64 result of the build can be one lower (rounding error just below the *)
(* integer, e.g. 164 for 165 at load 0.70 of the default curve); at load   *)
(* 0.5 of the default curve both give 95.                                  *)
(* Option<T> is a sequence: <<>> is None and <<v>> is Some(v).             *)
(***************************************************************************)
EXTENDS Integers, Sequences, FiniteSets, TLC

VARIABLES
    pc,              \* position in inner_main
    speed_override,  \* args.speed_override : Option<u8>
    update_interval, \* args.update_interval, whole seconds
    fan_curve,       \* fan_curve.table : sorted Vec<(load, speed)>
    temp_history,    \* CircleBuf<Vec<u8>>  [n, buf]
    power_history,   \* CircleBuf<Vec<f64>> [n, buf], ratios in hundredths
    prev_speed,      \* Option<u8>
    fan_controller,  \* Option<HidDevice>
    temp,            \* local of the tick: temperature read
    power_usage,     \* local of the tick
    power_limit,     \* local of the tick
    speed,           \* value of the `let speed = loop { ... }` block
    break_from,      \* which `break` of the inner loop produced speed
    outcome,         \* how the current tick ended
    device_duty,     \* duty cycle of the last write the actuator accepted
    tick,            \* I/O done since the last sleep [opens, reads, pushes, sends]
    steady,          \* run summary: same candidate on every tick, no I/O failure
    hot_age,         \* pushes since the last push of a temperature >= 77
    probe            \* the last two lookup_speed calls <<load, result>>

vars == <<pc, speed_override, update_interval, fan_curve, temp_history,
          power_history, prev_speed, fan_controller, temp, power_usage,
          power_limit, speed, break_from, outcome, device_duty, tick, steady,
          hot_age, probe>>

None == <<>>
Some(v) == <<v>>

(***************************************************************************)
(* Bounds and input sets                                                   *)
(***************************************************************************)
MaxTicks == 3          \* cap of the completed-tick counter of `steady`
MaxSends == 2          \* cap of the successful-send counter of `steady`
MaxPoints == 2         \* longest curve given to FanSpeedTable::new by the lookup checks
MaxAge == 2            \* cap of hot_age: MaxAge stands for "MaxAge pushes ago or never"
MaxCap == 3            \* largest window of the CircleBuf checks

Scale == 100           \* loads are counted in 1/Scale
Temps == {50, 72, 76, 77}                       \* degrees returned by NVML
PowerUsages == {0, 80000, 125000, 247500, 250000}   \* milliwatts
PowerLimits == {250000}                      \* milliwatts
UpdateIntervals == {-5, 30, 60}              \* seconds
Overrides == {0, 128}

Min(a, b) == IF a < b THEN a ELSE b
Abs(a) == IF a < 0 THEN 0 - a ELSE a
AsU8(x) == x % 256                            \* integer `as u8`
FloatAsU8(x) == IF x < 0 THEN 0 ELSE IF x > 255 THEN 255 ELSE x  \* f64 `as u8`
SaturatingAdd(a, b) == Min(a + b, 255)

(***************************************************************************)
(* FanSpeedTable                                                           *)
(***************************************************************************)
RECURSIVE InsertSorted(_, _)
InsertSorted(sorted, p) ==
    IF sorted = <<>> THEN <<p>>
    ELSE IF p[1] < sorted[Len(sorted)][1]
         THEN Append(InsertSorted(SubSeq(sorted, 1, Len(sorted) - 1), p),
                     sorted[Len(sorted)])
         ELSE Append(sorted, p)

RECURSIVE SortByLoad(_)
SortByLoad(table) ==
    IF table = <<>> THEN <<>>
    ELSE InsertSorted(SortByLoad(SubSeq(table, 1, Len(table) - 1)),
                      table[Len(table)])

FanSpeedTable_new(table) == SortByLoad(table)

DEFAULT_FAN_SPEED ==
    << <<30, 0>>, <<40, 70>>, <<60, 120>>, <<70, 170>>, <<80, 210>>, <<95, 255>> >>

default_fan_speed_table == FanSpeedTable_new(DEFAULT_FAN_SPEED)

ClampLoad_LowerOnly(num, den) ==
    IF num < 0 THEN 0 ELSE num

ClampLoad(num, den) ==
    IF num < 0 THEN 0 ELSE IF num > Scale * den THEN Scale * den ELSE num

UpperPoint_Inclusive(table, num, den) ==
    LET hits == {i \in 1..Len(table) : num <= table[i][1] * den}
    IN  IF hits = {} THEN <<Scale, 255>>
        ELSE table[CHOOSE i \in hits : \A j \in hits : i <= j]

UpperPoint(table, num, den) ==
    LET hits == {i \in 1..Len(table) : num < table[i][1] * den}
    IN  IF hits = {} THEN <<Scale, 255>>
        ELSE table[CHOOSE i \in hits : \A j \in hits : i <= j]

LowerPoint(table, num, den) ==
    LET hits == {i \in 1..Len(table) : num > table[i][1] * den}
    IN  IF hits = {} THEN <<0, 0>>
        ELSE table[CHOOSE i \in hits : \A j \in hits : i >= j]

Interpolate(upper, lower, num, den) ==
    LET span == (upper[1] - lower[1]) * den
        part == num - lower[1] * den
    IN  IF span = 0 THEN 0
        ELSE FloatAsU8((upper[2] * part + lower[2] * (span - part)) \div span)

lookup_speed(table, num, den) ==
    LET load == ClampLoad(num, den)
    IN  Interpolate(UpperPoint(table, load, den), LowerPoint(table, load, den),
                    load, den)

(***************************************************************************)
(* CircleBuf                                                               *)
(***************************************************************************)
CircleBuf_new(buf) == [n |-> 0, buf |-> buf]

CircleBuf_push_NoAdvance(cb, e) ==
    LET n == cb.n % Len(cb.buf)
    IN  [n |-> n, buf |-> [cb.buf EXCEPT ![n + 1] = e]]

CircleBuf_push(cb, e) ==
    LET n == cb.n % Len(cb.buf)
    IN  [n |-> n + 1, buf |-> [cb.buf EXCEPT ![n + 1] = e]]

SeqMax_LastOnly(s) == s[Len(s)]

RECURSIVE SeqMax(_)
SeqMax(s) ==
    IF Len(s) = 1 THEN s[1]
    ELSE LET m == SeqMax(Tail(s)) IN IF s[1] > m THEN s[1] ELSE m

RECURSIVE SeqSum(_)
SeqSum(s) == IF s = <<>> THEN 0 ELSE s[1] + SeqSum(Tail(s))

Filled(v, n) == [i \in 1..n |-> v]

(***************************************************************************)
(* inner_main: helpers                                                     *)
(***************************************************************************)
Samples(interval) ==
    IF interval <= 0 THEN 0 ELSE (60 + interval - 1) \div interval

PowerRatio(usage, limit) == (usage * Scale) \div limit

Windows == FALSE

Frame(duty) ==
    [i \in 1..64 |->
        IF Windows
        THEN (IF i \in {1, 2} THEN 1 ELSE IF i = 3 THEN duty ELSE 0)
        ELSE (IF i = 1 THEN 1 ELSE IF i = 2 THEN duty ELSE 0)]

FrameDuty(buf) == IF Windows THEN buf[3] ELSE buf[2]

SafetyCutoff_Strict(max_temp) == max_temp > 77

SafetyCutoff(max_temp) == max_temp >= 77

AdjSpeed_Wrapping(max_temp, base) ==
    IF max_temp >= 72 THEN (base + 50) % 256 ELSE base

AdjSpeed(max_temp, base) ==
    IF max_temp >= 72 THEN SaturatingAdd(base, 50) ELSE base

WithinBand_Thirteen(prev, new) == 4 * Abs(new - prev) <= 52

WithinBand(prev, new) == 4 * Abs(new - prev) <= 51

Suppress_BandOnly(prev, new) == WithinBand(prev, new)

Suppress_ZeroAlways(prev, new) ==
    /\ WithinBand(prev, new)
    /\ ~(new = 0)
    /\ ~(prev # 255 /\ new = 255)

Suppress_NoMaxReport(prev, new) ==
    /\ WithinBand(prev, new)
    /\ ~(prev # 0 /\ new = 0)

Suppress(prev, new) ==
    /\ WithinBand(prev, new)
    /\ ~(prev # 0 /\ new = 0)
    /\ ~(prev # 255 /\ new = 255)

\* the `if let Some(prev_speed) = prev_speed { if ... { continue } }` block
Continue(prev, new) == IF prev = None THEN FALSE ELSE Suppress(prev[1], new)

NoTick == [opens |-> 0, reads |-> 0, pushes |-> 0, sends |-> 0]
SteadyInit == [ok |-> TRUE, v |-> None, sends |-> 0, ticks |-> 0]
SteadyBroken == [ok |-> FALSE, v |-> None, sends |-> 0, ticks |-> 0]

SteadyCandidate(s, v) ==
    IF s.ok /\ (s.v = None \/ s.v = Some(v)) THEN [s EXCEPT !.v = Some(v)]
    ELSE SteadyBroken

SteadySent(s) ==
    IF s.ok THEN [s EXCEPT !.sends = Min(s.sends + 1, MaxSends)] ELSE s

SteadyTick(s) ==
    IF s.ok THEN [s EXCEPT !.ticks = Min(s.ticks + 1, MaxTicks)] ELSE s

ArgCurves == {None, Some(<< <<80, 120>>, <<20, 80>> >>)}

NoBuf == CircleBuf_new(<<>>)

(***************************************************************************)
(* inner_main: start-up                                                    *)
(***************************************************************************)
Init ==
    /\ pc = "hid_init"
    /\ speed_override \in {None} \cup {Some(v) : v \in Overrides}
    /\ update_interval \in UpdateIntervals
    /\ \E c \in ArgCurves :
          fan_curve = IF c = None THEN default_fan_speed_table
                      ELSE FanSpeedTable_new(c[1])
    /\ temp_history = NoBuf
    /\ power_history = NoBuf
    /\ prev_speed = None
    /\ fan_controller = None
    /\ temp = 0
    /\ power_usage = 0
    /\ power_limit = 0
    /\ speed = 0
    /\ break_from = "none"
    /\ outcome = "none"
    /\ device_duty = None
    /\ tick = NoTick
    /\ steady = SteadyInit
    /\ hot_age = MaxAge
    /\ probe = <<>>

Frame1 == <<speed_override, update_interval, fan_curve, probe, hot_age>>
Locals == <<temp, power_usage, power_limit, speed, break_from>>
LoopState == <<temp_history, power_history, prev_speed, fan_controller>>
Ghosts == <<outcome, device_duty, tick, steady>>
Args1 == <<speed_override, update_interval, fan_curve, probe>>

HidInitOk ==
    /\ pc = "hid_init"
    /\ pc' = IF speed_override # None THEN "override_open" ELSE "nvml_init"
    /\ UNCHANGED <<Frame1, Locals, LoopState, Ghosts>>

HidInitErr ==
    /\ pc = "hid_init"
    /\ pc' = "exit_err"
    /\ UNCHANGED <<Frame1, Locals, LoopState, Ghosts>>

OverrideOpenOk ==
    /\ pc = "override_open"
    /\ pc' = "override_write"
    /\ tick' = [tick EXCEPT !.opens = @ + 1]
    /\ UNCHANGED <<Frame1, Locals, LoopState, outcome, device_duty, steady>>

OverrideOpenErr ==
    /\ pc = "override_open"
    /\ pc' = "exit_err"
    /\ tick' = [tick EXCEPT !.opens = @ + 1]
    /\ UNCHANGED <<Frame1, Locals, LoopState, outcome, device_duty, steady>>

OverrideWriteOk_FallsThrough ==
    /\ pc = "override_write"
    /\ pc' = "nvml_init"
    /\ device_duty' = Some(FrameDuty(Frame(speed_override[1])))
    /\ tick' = [tick EXCEPT !.sends = @ + 1]
    /\ UNCHANGED <<Frame1, Locals, LoopState, outcome, steady>>

OverrideWriteOk ==
    /\ pc = "override_write"
    /\ pc' = "exit_ok"
    /\ device_duty' = Some(FrameDuty(Frame(speed_override[1])))
    /\ tick' = [tick EXCEPT !.sends = @ + 1]
    /\ UNCHANGED <<Frame1, Locals, LoopState, outcome, steady>>

OverrideWriteErr ==
    /\ pc = "override_write"
    /\ pc' = "exit_err"
    /\ tick' = [tick EXCEPT !.sends = @ + 1]
    /\ UNCHANGED <<Frame1, Locals, LoopState, outcome, device_duty, steady>>

NvmlInitOk ==
    /\ pc = "nvml_init"
    /\ pc' = "device_by_uuid"
    /\ UNCHANGED <<Frame1, Locals, LoopState, Ghosts>>

NvmlInitErr ==
    /\ pc = "nvml_init"
    /\ pc' = "exit_err"
    /\ UNCHANGED <<Frame1, Locals, LoopState, Ghosts>>

DeviceByUuidOk ==
    /\ pc = "device_by_uuid"
    /\ pc' = "first_read"
    /\ UNCHANGED <<Frame1, Locals, LoopState, Ghosts>>

DeviceByUuidErr ==
    /\ pc = "device_by_uuid"
    /\ pc' = "exit_err"
    /\ UNCHANGED <<Frame1, Locals, LoopState, Ghosts>>

\* args.logging and one of gpu.name()?, gpu.uuid()?, gpu.temperature()? fails
LogHeaderErr ==
    /\ pc = "first_read"
    /\ pc' = "exit_err"
    /\ UNCHANGED <<Frame1, Locals, LoopState, Ghosts>>

FirstReadOk ==
    /\ pc = "first_read"
    /\ \E t \in Temps, u \in PowerUsages, l \in PowerLimits :
          /\ temp_history' =
                CircleBuf_new(Filled(AsU8(t), Samples(update_interval)))
          /\ power_history' =
                CircleBuf_new(Filled(PowerRatio(u, l), Samples(update_interval)))
    /\ prev_speed' = None
    /\ fan_controller' = None
    /\ pc' = "loop_top"
    /\ UNCHANGED <<Frame1, Locals, Ghosts>>

FirstReadErr ==
    /\ pc = "first_read"
    /\ pc' = "exit_err"
    /\ UNCHANGED <<Frame1, Locals, LoopState, Ghosts>>

(***************************************************************************)
(* inner_main: the monitoring loop, one action per step of a tick          *)
(***************************************************************************)
Sleep ==
    /\ pc = "loop_top"
    /\ pc' = "acquire"
    /\ speed' = 0
    /\ break_from' = "none"
    /\ outcome' = "none"
    /\ tick' = NoTick
    /\ UNCHANGED <<Frame1, LoopState, temp, power_usage, power_limit,
                   device_duty, steady>>

AcquireLive ==
    /\ pc = "acquire"
    /\ fan_controller # None
    /\ pc' = "read_temp"
    /\ UNCHANGED <<Frame1, Locals, LoopState, Ghosts>>

OpenOk ==
    /\ pc = "acquire"
    /\ fan_controller = None
    /\ fan_controller' = Some("HidDevice")
    /\ tick' = [tick EXCEPT !.opens = @ + 1]
    /\ pc' = "read_temp"
    /\ UNCHANGED <<Frame1, Locals, temp_history, power_history, prev_speed,
                   outcome, device_duty, steady>>

OpenErr_FallsThrough ==
    /\ pc = "acquire"
    /\ fan_controller = None
    /\ tick' = [tick EXCEPT !.opens = @ + 1]
    /\ steady' = SteadyBroken
    /\ pc' = "read_temp"
    /\ UNCHANGED <<Frame1, Locals, LoopState, outcome, device_duty>>

OpenErr ==
    /\ pc = "acquire"
    /\ fan_controller = None
    /\ tick' = [tick EXCEPT !.opens = @ + 1]
    /\ outcome' = "skipped"
    /\ steady' = SteadyBroken
    /\ pc' = "loop_top"
    /\ UNCHANGED <<Frame1, Locals, LoopState, device_duty>>

\* `break 255` of the inner loop after a failed read
BreakOnReadErr(which) ==
    /\ speed' = 255
    /\ break_from' = which
    /\ tick' = [tick EXCEPT !.reads = @ + 1]
    /\ steady' = SteadyCandidate(steady, 255)
    /\ temp' = 0
    /\ power_usage' = 0
    /\ power_limit' = 0
    /\ pc' = "filter"
    /\ UNCHANGED <<Frame1, LoopState, outcome, device_duty>>

ReadTempOk_PushesEarly ==
    /\ pc = "read_temp"
    /\ \E t \in Temps :
          /\ temp' = t
          /\ temp_history' = IF Len(temp_history.buf) = 0 THEN temp_history
                             ELSE CircleBuf_push(temp_history, AsU8(t))
    /\ tick' = [tick EXCEPT !.reads = @ + 1, !.pushes = @ + 1]
    /\ pc' = "read_usage"
    /\ UNCHANGED <<Frame1, power_history, prev_speed, fan_controller,
                   power_usage, power_limit, speed, break_from, outcome,
                   device_duty, steady>>

ReadTempOk ==
    /\ pc = "read_temp"
    /\ \E t \in Temps : temp' = t
    /\ tick' = [tick EXCEPT !.reads = @ + 1]
    /\ pc' = "read_usage"
    /\ UNCHANGED <<Frame1, LoopState, power_usage, power_limit, speed,
                   break_from, outcome, device_duty, steady>>

ReadTempErr ==
    /\ pc = "read_temp"
    /\ BreakOnReadErr("temperature_err")

ReadUsageOk ==
    /\ pc = "read_usage"
    /\ \E u \in PowerUsages : power_usage' = u
    /\ tick' = [tick EXCEPT !.reads = @ + 1]
    /\ pc' = "read_limit"
    /\ UNCHANGED <<Frame1, LoopState, temp, power_limit, speed, break_from,
                   outcome, device_duty, steady>>

ReadUsageErr ==
    /\ pc = "read_usage"
    /\ BreakOnReadErr("power_usage_err")

ReadLimitOk ==
    /\ pc = "read_limit"
    /\ \E l \in PowerLimits : power_limit' = l
    /\ tick' = [tick EXCEPT !.reads = @ + 1]
    /\ pc' = "push"
    /\ UNCHANGED <<Frame1, LoopState, temp, power_usage, speed, break_from,
                   outcome, device_duty, steady>>

ReadLimitErr ==
    /\ pc = "read_limit"
    /\ BreakOnReadErr("power_limit_err")

\* `self.n % buf.len()` with an empty buffer: the thread panics
PushPanic ==
    /\ pc = "push"
    /\ Len(temp_history.buf) = 0
    /\ pc' = "panicked"
    /\ UNCHANGED <<Frame1, Locals, LoopState, Ghosts>>

HotAge(age, pushed) ==
    IF pushed >= 77 THEN 0 ELSE Min(age + 1, MaxAge)

Candidate(max_temp, ph) ==
    IF SafetyCutoff(max_temp) THEN 255
    ELSE AdjSpeed(max_temp, lookup_speed(fan_curve, SeqSum(ph.buf), Len(ph.buf)))

PushAndCompute ==
    /\ pc = "push"
    /\ Len(temp_history.buf) > 0
    /\ LET th == CircleBuf_push(temp_history, AsU8(temp))
           ph == CircleBuf_push(power_history, PowerRatio(power_usage, power_limit))
           max_temp == SeqMax(th.buf)
       IN  /\ temp_history' = th
           /\ power_history' = ph
           /\ speed' = Candidate(max_temp, ph)
           /\ break_from' = IF SafetyCutoff(max_temp) THEN "cutoff" ELSE "curve"
           /\ steady' = SteadyCandidate(steady, Candidate(max_temp, ph))
    /\ hot_age' = HotAge(hot_age, AsU8(temp))
    /\ tick' = [tick EXCEPT !.pushes = @ + 2]
    /\ temp' = 0
    /\ power_usage' = 0
    /\ power_limit' = 0
    /\ pc' = "filter"
    /\ UNCHANGED <<Args1, prev_speed, fan_controller, outcome, device_duty>>

FilterSuppress ==
    /\ pc = "filter"
    /\ Continue(prev_speed, speed)
    /\ outcome' = "suppressed"
    /\ steady' = SteadyTick(steady)
    /\ pc' = "loop_top"
    /\ UNCHANGED <<Frame1, Locals, LoopState, device_duty, tick>>

FilterPass ==
    /\ pc = "filter"
    /\ ~Continue(prev_speed, speed)
    /\ pc' = "write"
    /\ UNCHANGED <<Frame1, Locals, LoopState, Ghosts>>

WriteOk ==
    /\ pc = "write"
    /\ prev_speed' = Some(speed)
    /\ device_duty' = Some(FrameDuty(Frame(speed)))
    /\ tick' = [tick EXCEPT !.sends = @ + 1]
    /\ outcome' = "sent"
    /\ steady' = SteadyTick(SteadySent(steady))
    /\ pc' = "loop_top"
    /\ UNCHANGED <<Frame1, Locals, temp_history, power_history, fan_controller>>

WriteErr_UpdatesPrev ==
    /\ pc = "write"
    /\ prev_speed' = Some(speed)
    /\ fan_controller' = None
    /\ tick' = [tick EXCEPT !.sends = @ + 1]
    /\ outcome' = "write_failed"
    /\ steady' = SteadyBroken
    /\ pc' = "loop_top"
    /\ UNCHANGED <<Frame1, Locals, temp_history, power_history, device_duty>>

WriteErr_RetriesNow ==
    /\ pc = "write"
    /\ fan_controller' = None
    /\ tick' = [tick EXCEPT !.sends = @ + 1]
    /\ outcome' = "write_failed"
    /\ steady' = SteadyBroken
    /\ pc' = "acquire"
    /\ UNCHANGED <<Frame1, Locals, temp_history, power_history, prev_speed,
                   device_duty>>

WriteErr ==
    /\ pc = "write"
    /\ fan_controller' = None
    /\ tick' = [tick EXCEPT !.sends = @ + 1]
    /\ outcome' = "write_failed"
    /\ steady' = SteadyBroken
    /\ pc' = "loop_top"
    /\ UNCHANGED <<Frame1, Locals, temp_history, power_history, prev_speed,
                   device_duty>>

Next ==
    \/ HidInitOk \/ HidInitErr
    \/ OverrideOpenOk \/ OverrideOpenErr \/ OverrideWriteOk \/ OverrideWriteErr
    \/ NvmlInitOk \/ NvmlInitErr \/ DeviceByUuidOk \/ DeviceByUuidErr
    \/ LogHeaderErr \/ FirstReadOk \/ FirstReadErr
    \/ Sleep \/ AcquireLive \/ OpenOk \/ OpenErr
    \/ ReadTempOk \/ ReadTempErr \/ ReadUsageOk \/ ReadUsageErr
    \/ ReadLimitOk \/ ReadLimitErr
    \/ PushPanic \/ PushAndCompute
    \/ FilterSuppress \/ FilterPass \/ WriteOk \/ WriteErr

Spec == Init /\ [][Next]_vars

LoopPcs == {"loop_top", "acquire", "read_temp", "read_usage", "read_limit",
            "push", "filter", "write"}
ReadErrs == {"temperature_err", "power_usage_err", "power_limit_err"}

(***************************************************************************)
(* lookup_speed on its own: curves built by FanSpeedTable::new from every  *)
(* sequence of at most MaxPoints points, probed at a grid of loads         *)
(***************************************************************************)
CurvePoints == {<<l, s>> : l \in {0, 30, 50, 100}, s \in {0, 100, 255}}

RECURSIVE SeqsUpTo(_, _)
SeqsUpTo(S, n) ==
    IF n = 0 THEN {<<>>}
    ELSE LET shorter == SeqsUpTo(S, n - 1)
         IN  shorter \cup {Append(q, x) : q \in shorter, x \in S}

CurveInputs == SeqsUpTo(CurvePoints, MaxPoints) \cup {DEFAULT_FAN_SPEED}

ProbeLoads == {-10, 150} \cup {5 * k : k \in 0..20}

InitLookup ==
    /\ pc = "lookup"
    /\ speed_override = None
    /\ update_interval = 60
    /\ \E input \in CurveInputs : fan_curve = FanSpeedTable_new(input)
    /\ temp_history = NoBuf
    /\ power_history = NoBuf
    /\ prev_speed = None
    /\ fan_controller = None
    /\ temp = 0
    /\ power_usage = 0
    /\ power_limit = 0
    /\ speed = 0
    /\ break_from = "none"
    /\ outcome = "none"
    /\ device_duty = None
    /\ tick = NoTick
    /\ steady = SteadyInit
    /\ hot_age = MaxAge
    /\ probe = <<>>

LookupCall ==
    /\ pc = "lookup"
    /\ \E load \in ProbeLoads :
          LET call == <<load, lookup_speed(fan_curve, load, 1)>>
          IN  probe' = IF probe = <<>> THEN <<call>>
                       ELSE <<probe[Len(probe)], call>>
    /\ UNCHANGED <<pc, speed_override, update_interval, fan_curve, Locals,
                   LoopState, Ghosts, hot_age>>

NextLookup == LookupCall

SpecLookup == InitLookup /\ [][NextLookup]_vars

(***************************************************************************)
(* CircleBuf on its own: windows of 0..MaxCap slots built as inner_main    *)
(* builds them (every slot holds the first reading), pushed into at most   *)
(* MaxCap + 2 times; probe is the sequence of the values pushed            *)
(***************************************************************************)
WindowValues == 0..(MaxCap + 1)

InitWindow ==
    /\ pc = "window"
    /\ speed_override = None
    /\ update_interval = 60
    /\ fan_curve = default_fan_speed_table
    /\ \E cap \in 0..MaxCap, first \in WindowValues :
          /\ temp_history = CircleBuf_new(Filled(first, cap))
          /\ power_history = CircleBuf_new(Filled(first, cap))
    /\ prev_speed = None
    /\ fan_controller = None
    /\ temp = 0
    /\ power_usage = 0
    /\ power_limit = 0
    /\ speed = 0
    /\ break_from = "none"
    /\ outcome = "none"
    /\ device_duty = None
    /\ tick = NoTick
    /\ steady = SteadyInit
    /\ hot_age = MaxAge
    /\ probe = <<>>

WindowPush ==
    /\ pc = "window"
    /\ Len(temp_history.buf) > 0
    /\ Len(probe) < MaxCap + 2
    /\ \E v \in WindowValues :
          /\ temp_history' = CircleBuf_push(temp_history, v)
          /\ power_history' = CircleBuf_push(power_history, v)
          /\ probe' = Append(probe, v)
    /\ UNCHANGED <<pc, speed_override, update_interval, fan_curve, prev_speed,
                   fan_controller, Locals, Ghosts, hot_age>>

\* `self.n % buf.len()` with an empty buffer: the thread panics
WindowPushPanic ==
    /\ pc = "window"
    /\ Len(temp_history.buf) = 0
    /\ pc' = "panicked"
    /\ UNCHANGED <<Frame1, Locals, LoopState, Ghosts>>

NextWindow == WindowPush \/ WindowPushPanic

SpecWindow == InitWindow /\ [][NextWindow]_vars

(***************************************************************************)
(* Properties                                                              *)
(***************************************************************************)
MonotoneCurve(table) ==
    \A i, j \in 1..Len(table) : i <= j => table[i][2] <= table[j][2]

InUnit(load) == 0 <= load /\ load <= Scale

\* C7: for a curve whose speeds do not decrease with load, lookup does not
\* decrease with the load: of two calls with loads L1 <= L2 in [0,1] the
\* first result is at most the second.
C7_LookupMonotone ==
    (/\ Len(probe) = 2
     /\ MonotoneCurve(fan_curve)
     /\ InUnit(probe[1][1]) /\ InUnit(probe[2][1]))
    => /\ probe[1][1] <= probe[2][1] => probe[1][2] <= probe[2][2]
       /\ probe[2][1] <= probe[1][1] => probe[2][2] <= probe[1][2]

\* C8: lookup passes through the breakpoints: a call whose load is the load
\* of a breakpoint of the curve returns that breakpoint's speed (for the
\* default curve 0.30 -> 0, 0.40 -> 70, 0.60 -> 120, 0.70 -> 170,
\* 0.80 -> 210, 0.95 -> 255).
C8_LookupThroughBreakpoints ==
    \A k \in 1..Len(probe) : \A i \in 1..Len(fan_curve) :
        probe[k][1] = fan_curve[i][1] => probe[k][2] = fan_curve[i][2]

(***************************************************************************)
(* Properties of the monitoring loop                                       *)
(***************************************************************************)
C1_Rule(prev, cand) ==
    /\ Abs(cand - prev) <= 12
    /\ ~(prev # 0 /\ cand = 0)
    /\ ~(prev # 255 /\ cand = 255)

C1_Table ==
    /\ \A c \in 0..255 : ~Continue(None, c)
    /\ \A p, c \in 0..255 : Continue(Some(p), c) <=> C1_Rule(p, c)
    /\ \A c \in 88..112 : Continue(Some(100), c)
    /\ ~Continue(Some(100), 0)
    /\ ~Continue(Some(100), 255)
    /\ Continue(Some(0), 0)

C1_Step ==
    pc = "filter" =>
        /\ pc' \in {"write", "loop_top"}
        /\ (pc' = "loop_top") <=>
              (prev_speed # None /\ C1_Rule(prev_speed[1], speed))
        /\ pc' = "loop_top" =>
              /\ outcome' = "suppressed"
              /\ tick'.sends = 0
              /\ UNCHANGED <<prev_speed, device_duty>>

\* C1: the hysteresis filter sends the candidate when no speed was commanded
\* before, and otherwise suppresses it exactly when it is within 12 of the
\* previous speed and is neither a move to 0 from a non-zero speed nor a
\* move to 255 from a speed below 255 (so with prev = 100 the candidates
\* 88..112 are suppressed, 0 and 255 are sent, and 0 after 0 is suppressed).
\* The rule is compared on every pair of bytes once, in the initial states,
\* and on every step the filter takes.
C1_Hysteresis ==
    /\ [](pc = "hid_init" => C1_Table)
    /\ [][C1_Step]_vars

C1_Witness ==
    /\ pc = "loop_top"
    /\ outcome = "suppressed"
    /\ prev_speed = Some(100)
    /\ speed = 88

\* C2 as claimed: a tick whose telemetry read failed has candidate 255 and
\* always goes on to send it, whatever the previous speed is.
C2_AlwaysCommanded ==
    [][(pc = "filter" /\ break_from \in ReadErrs)
          => (speed = 255 /\ pc' = "write")]_vars

C2_Step ==
    /\ (pc \in {"read_temp", "read_usage", "read_limit"} /\ pc' = "filter")
          => (speed' = 255 /\ break_from' \in ReadErrs)
    /\ (pc = "filter" /\ break_from \in ReadErrs) =>
          /\ speed = 255
          /\ (pc' = "write") <=> (prev_speed # Some(255))
          /\ (pc' = "loop_top" /\ outcome' = "suppressed")
                <=> (prev_speed = Some(255))
    /\ pc = "write" => tick'.sends = 1

\* C2 (amended): a tick whose telemetry read failed has candidate 255, and
\* a send of it is attempted on that tick unless the previously commanded
\* speed is already 255, in which case the tick sends nothing.
C2_CommandedUnlessAlreadyMax == [][C2_Step]_vars

C2_Witness ==
    /\ pc = "write"
    /\ break_from \in ReadErrs
    /\ speed = 255
    /\ prev_speed = Some(248)

\* C3: after a tick's reads succeeded and both windows were pushed, a
\* maximum of temp_history of 77 or more makes the candidate 255, whatever
\* power_history and the curve hold.
C3_SafetyCutoff ==
    (/\ pc = "filter"
     /\ break_from \notin ReadErrs
     /\ SeqMax(temp_history.buf) >= 77)
    => speed = 255

C3_Witness ==
    /\ pc = "filter"
    /\ break_from = "cutoff"
    /\ SeqMax(temp_history.buf) = 77
    /\ temp_history.buf[temp_history.n] < 77
    /\ SeqSum(power_history.buf) = 0
    /\ speed = 255

C4_Step ==
    /\ prev_speed' # prev_speed =>
          /\ pc = "write"
          /\ outcome' = "sent"
          /\ prev_speed' = Some(speed)
          /\ device_duty' = Some(speed)
    /\ (pc = "write" /\ outcome' = "write_failed") =>
          /\ prev_speed' = prev_speed
          /\ device_duty' = device_duty
          /\ fan_controller' = None
    /\ pc = "write" => outcome' \in {"sent", "write_failed"}

\* C4: prev_speed changes only by a successful send, to the duty cycle just
\* sent; a failed send keeps it and drops the connection.  So on the
\* monitoring path prev_speed is None until a send has succeeded and is
\* afterwards the duty cycle of the last send the actuator accepted.
C4_PrevSpeedTracksSends ==
    /\ [](speed_override = None => prev_speed = device_duty)
    /\ [][C4_Step]_vars

C4_Witness ==
    /\ pc = "loop_top"
    /\ outcome = "write_failed"
    /\ fan_controller = None
    /\ prev_speed # None
    /\ prev_speed # Some(speed)
    /\ prev_speed = device_duty

C5_Step ==
    /\ (/\ pc = "acquire"
        /\ tick'.opens = tick.opens + 1
        /\ fan_controller' = None)
          => /\ pc' = "loop_top"
             /\ outcome' = "skipped"
             /\ UNCHANGED <<temp_history, power_history, prev_speed,
                            device_duty>>
             /\ tick'.reads = 0 /\ tick'.pushes = 0 /\ tick'.sends = 0
    /\ (pc = "loop_top" /\ outcome = "skipped") =>
          /\ pc' = "acquire"
          /\ fan_controller' = None
    /\ (pc = "acquire" /\ fan_controller = None) => tick'.opens = 1

\* C5: a tick that starts without a connection and whose open fails is
\* skipped: no read, no push, no send, both windows and prev_speed as they
\* were, the connection still absent, and the next tick opens again.
C5_SkippedTick == [][C5_Step]_vars

C5_Witness ==
    /\ pc = "loop_top"
    /\ outcome = "skipped"
    /\ prev_speed # None
    /\ tick = [opens |-> 1, reads |-> 0, pushes |-> 0, sends |-> 0]

C6_Step ==
    /\ (/\ pc \in LoopPcs \ {"loop_top"}
        /\ \/ temp_history' # temp_history
           \/ power_history' # power_history
           \/ tick'.pushes # tick.pushes)
          => /\ pc = "push"
             /\ tick.reads = 3
             /\ temp_history' = CircleBuf_push(temp_history, AsU8(temp))
             /\ power_history' =
                   CircleBuf_push(power_history,
                                  PowerRatio(power_usage, power_limit))
             /\ tick'.pushes = 2
    /\ (pc' = "filter" /\ break_from' \in ReadErrs) =>
          UNCHANGED <<temp_history, power_history>>

\* C6: a tick in which one of the three reads fails pushes into neither
\* window, also when its earlier reads succeeded; the two windows are
\* pushed in one step, after all three reads have succeeded.
C6_NoPushOnReadError ==
    /\ [](break_from \in ReadErrs => tick.pushes = 0)
    /\ [][C6_Step]_vars

C6_Witness ==
    /\ pc = "filter"
    /\ break_from = "power_limit_err"
    /\ tick.reads = 3
    /\ tick.pushes = 0
    /\ Len(temp_history.buf) = 2
    /\ temp_history.n = 2

\* C9: while every tick has had the same candidate v and no open or send
\* has failed, v was sent exactly once, by the first tick, and every later
\* tick was suppressed; with the default curve a window of 12 ratios 0.5
\* gives v = 95.
C9_CommandedOnce ==
    /\ lookup_speed(default_fan_speed_table, SeqSum(Filled(50, 12)), 12) = 95
    /\ steady.ok =>
          /\ steady.ticks = 0 => (steady.sends = 0 /\ prev_speed = None)
          /\ steady.ticks >= 1 =>
                /\ steady.sends = 1
                /\ prev_speed = steady.v
                /\ device_duty = steady.v
          /\ (pc = "loop_top" /\ steady.ticks = 1) => outcome = "sent"
          /\ (pc = "loop_top" /\ steady.ticks >= 2) =>
                (outcome = "suppressed" /\ tick.sends = 0)

C9_Witness ==
    /\ pc = "loop_top"
    /\ steady.ok
    /\ steady.ticks >= 3
    /\ steady.v = Some(95)
    /\ fan_curve = default_fan_speed_table
    /\ temp_history.buf = <<50, 50>>
    /\ power_history.buf = <<50, 50>>

\* C10: once the monitoring loop has been entered the program stays in it:
\* no step leaves the loop, whatever fails during a tick.
C10_LoopNeverTerminates == [][(pc \in LoopPcs) => (pc' \in LoopPcs)]_vars

C11_Step ==
    /\ (pc \in LoopPcs \ {"loop_top"} /\ tick'.opens # tick.opens) =>
          /\ pc = "acquire"
          /\ fan_controller = None
          /\ tick = NoTick
          /\ tick'.opens = 1
    /\ (pc \in LoopPcs \ {"loop_top"} /\ tick'.sends # tick.sends) =>
          /\ pc = "write"
          /\ tick.sends = 0
          /\ tick'.sends = 1
          /\ pc' = "loop_top"
    /\ (pc = "write" /\ outcome' = "write_failed") =>
          /\ fan_controller' = None
          /\ pc' = "loop_top"
    /\ pc = "loop_top" => (pc' = "acquire" /\ tick' = NoTick)
    /\ (pc \in LoopPcs /\ fan_controller = None /\ fan_controller' # None)
          => pc = "acquire"

\* C11: no error is retried within a tick: a tick makes at most one open
\* attempt, as its first I/O and before any read, and at most one send,
\* after which the tick ends; the counters of a tick restart only by the
\* sleep, so a sleep lies between two opens and between two sends; a failed
\* write empties the connection slot and ends the tick.
C11_NoRetryWithinTick ==
    /\ [](pc \in LoopPcs => (tick.opens <= 1 /\ tick.sends <= 1))
    /\ [][C11_Step]_vars

C11_Witness ==
    /\ pc = "read_temp"
    /\ tick = [opens |-> 1, reads |-> 0, pushes |-> 0, sends |-> 0]
    /\ prev_speed # None
    /\ fan_controller # None

C12_Rule(max_temp, base) ==
    IF max_temp >= 72 /\ max_temp <= 76
    THEN (IF base + 50 > 255 THEN 255 ELSE base + 50)
    ELSE base

C12_Table ==
    /\ AdjSpeed(72, 100) = 150
    /\ \A b \in 206..255 : AdjSpeed(72, b) = 255
    /\ \A m \in 0..76, b \in 0..255 : AdjSpeed(m, b) = C12_Rule(m, b)

\* C12: on a tick whose reads succeeded and whose max_temp is below 77, the
\* candidate is lookup(mean of power_history) plus 50, capped at 255, when
\* max_temp is 72..76, and lookup(mean of power_history) itself when
\* max_temp is below 72 (72 and 100 give 150; from 206 on the result is 255).
\* The rule is compared on every max_temp and base once, in the initial
\* states, and on every candidate the loop computes from the curve.
C12_ThermalBoost ==
    /\ pc = "hid_init" => C12_Table
    /\ (pc = "filter" /\ break_from = "curve") =>
          speed = C12_Rule(SeqMax(temp_history.buf),
                           lookup_speed(fan_curve, SeqSum(power_history.buf),
                                        Len(power_history.buf)))

C12_Witness ==
    /\ pc = "filter"
    /\ break_from = "curve"
    /\ SeqMax(temp_history.buf) = 72
    /\ lookup_speed(fan_curve, SeqSum(power_history.buf),
                    Len(power_history.buf)) = 100
    /\ speed = 150

OverridePcs == {"hid_init", "override_open", "override_write", "exit_ok",
                "exit_err"}

\* C13: with an override duty cycle the program stays on the override
\* path: it never reads telemetry, never builds the windows and never
\* enters the loop; it opens the actuator at most once and sends at most
\* once; it ends normally only after one open and one send that delivered
\* the override duty cycle, and a failed open or send ends it with an error
\* and nothing delivered.
C13_OverrideOnce ==
    speed_override # None =>
        /\ pc \in OverridePcs
        /\ tick.reads = 0 /\ tick.pushes = 0
        /\ temp_history = NoBuf /\ power_history = NoBuf
        /\ tick.opens <= 1 /\ tick.sends <= 1
        /\ tick.sends = 1 => tick.opens = 1
        /\ pc = "override_write" => (tick.opens = 1 /\ tick.sends = 0)
        /\ pc = "exit_ok" =>
              /\ tick.opens = 1 /\ tick.sends = 1
              /\ device_duty = speed_override
        /\ pc = "exit_err" => device_duty = None

C13_Witness ==
    /\ pc = "exit_ok"
    /\ speed_override = Some(128)
    /\ device_duty = Some(128)
    /\ tick = [opens |-> 1, reads |-> 0, pushes |-> 0, sends |-> 1]

\* C18: at the end of a tick that was not skipped and whose send, if any,
\* succeeded, a speed has been commanded and it is within 12 of the tick's
\* candidate; a candidate 255 or 0 has been commanded exactly; so after such
\* a tick with max_temp >= 77 or a failed read the commanded speed is 255.
C18_CommandedTracksCandidate ==
    (pc = "loop_top" /\ outcome \in {"sent", "suppressed"}) =>
        /\ prev_speed # None
        /\ Abs(speed - prev_speed[1]) <= 12
        /\ speed = 255 => prev_speed = Some(255)
        /\ speed = 0 => prev_speed = Some(0)
        /\ break_from \in ReadErrs \cup {"cutoff"} =>
              (prev_speed = Some(255) /\ device_duty = Some(255))

C18_Witness ==
    /\ pc = "loop_top"
    /\ outcome = "suppressed"
    /\ break_from = "cutoff"
    /\ prev_speed = Some(255)
    /\ device_duty = Some(255)

\* C20: a temperature of 77 or more pushed into a window of N samples keeps
\* the candidate of every tick whose reads succeed at 255 for that push and
\* the next N - 1 pushes; only a push ages it, so skipped ticks and ticks
\* with a failed read do not shorten the period.
C20_CutoffLatches ==
    /\ []((/\ pc = "filter"
           /\ break_from \notin ReadErrs
           /\ hot_age < Len(temp_history.buf))
          => (speed = 255 /\ break_from = "cutoff"))
    /\ [][(hot_age' # hot_age) =>
             (pc = "push" /\ tick.reads = 3 /\ tick'.pushes = 2)]_vars

C20_Witness ==
    /\ pc = "filter"
    /\ break_from = "cutoff"
    /\ hot_age = 1
    /\ Len(temp_history.buf) = 2
    /\ temp_history.buf[temp_history.n] = 50
    /\ SeqSum(power_history.buf) = 0
    /\ speed = 255

(***************************************************************************)
(* Properties of CircleBuf                                                 *)
(***************************************************************************)
Increasing(s) == \A i, j \in 1..Len(s) : i < j => s[i] < s[j]

Values(s) == {s[i] : i \in 1..Len(s)}

\* C14: a window of N >= 1 slots that has been pushed into exactly N times
\* with increasing values holds those N values and nothing else: max() is
\* the largest of them and mean() (sum over the N slots) is their mean.
C14_WindowAfterNPushes ==
    (/\ pc = "window"
     /\ Len(temp_history.buf) >= 1
     /\ Len(probe) = Len(temp_history.buf)
     /\ Increasing(probe))
    => /\ Values(temp_history.buf) = Values(probe)
       /\ Values(power_history.buf) = Values(probe)
       /\ SeqMax(temp_history.buf) = probe[Len(probe)]
       /\ SeqSum(power_history.buf) * Len(probe)
             = SeqSum(probe) * Len(power_history.buf)

C14_Witness ==
    /\ pc = "window"
    /\ probe = <<1, 2, 3>>
    /\ Values(temp_history.buf) = {1, 2, 3}
    /\ SeqMax(temp_history.buf) = 3
    /\ SeqSum(power_history.buf) = 6

C15_Step ==
    (pc = "window" /\ probe' # probe) =>
        LET cap == Len(temp_history.buf)
            at == temp_history.n % cap
        IN  /\ temp_history'.buf =
                  [temp_history.buf EXCEPT ![at + 1] = probe'[Len(probe')]]
            /\ temp_history'.n % cap = (temp_history.n + 1) % cap
            /\ Len(temp_history'.buf) = cap

C15_LastN ==
    (/\ pc = "window"
     /\ Len(temp_history.buf) >= 1
     /\ Len(probe) >= Len(temp_history.buf))
    => LET cap == Len(temp_history.buf)
       IN  \A k \in (Len(probe) - cap + 1)..Len(probe) :
              temp_history.buf[((k - 1) % cap) + 1] = probe[k]

\* C15: push never fails; it writes the pushed value into the slot at the
\* cursor, advances the cursor modulo the capacity and leaves the other
\* slots and the length alone; so after k >= N pushes the window holds the
\* last N values pushed, the k-th in the slot of the (k - N)-th.
C15_PushNeverFails ==
    /\ [](pc # "panicked")
    /\ [](C15_LastN)
    /\ [][C15_Step]_vars

(***************************************************************************)
(* Properties of FanSpeedTable (continued)                                 *)
(***************************************************************************)
LastCall == probe[Len(probe)]

Permuted(table, f) == [i \in 1..Len(table) |-> table[f[i]]]

Orders(table) == {Permuted(table, f) : f \in Permutations(1..Len(table))}

DistinctLoads(table) ==
    \A i, j \in 1..Len(table) : i # j => table[i][1] # table[j][1]

\* C16: whatever the order in which the breakpoints of a curve are handed to
\* the constructor (breakpoints sharing a load included), the curve built
\* gives the same lookup result.
C16_OrderIrrelevant ==
    (pc = "lookup" /\ probe # <<>>) =>
        \A input \in Orders(fan_curve) :
            lookup_speed(FanSpeedTable_new(input), LastCall[1], 1) = LastCall[2]

\* The same for curves whose breakpoints have pairwise different loads.
OrderIrrelevantForDistinctLoads ==
    (pc = "lookup" /\ probe # <<>> /\ DistinctLoads(fan_curve)) =>
        \A input \in Orders(fan_curve) :
            lookup_speed(FanSpeedTable_new(input), LastCall[1], 1) = LastCall[2]

\* C17: on the default curve lookup(0.0) = 0 and lookup(1.0) = 255; a load
\* below 0 is looked up as 0.0 and a load above 1 as 1.0.
C17_EndsAndClamp ==
    (pc = "lookup" /\ probe # <<>>) =>
        /\ (fan_curve = default_fan_speed_table /\ LastCall[1] = 0)
              => LastCall[2] = 0
        /\ (fan_curve = default_fan_speed_table /\ LastCall[1] = Scale)
              => LastCall[2] = 255
        /\ LastCall[1] < 0 => LastCall[2] = lookup_speed(fan_curve, 0, 1)
        /\ LastCall[1] > Scale
              => LastCall[2] = lookup_speed(fan_curve, Scale, 1)

C17_Witness ==
    /\ pc = "lookup"
    /\ fan_curve = default_fan_speed_table
    /\ probe = << <<-10, 0>>, <<150, 255>> >>

\* C19: for every curve the constructor builds and every load (after the
\* clamp to [0, 1]) the lower and upper points lookup chooses satisfy
\* lower.load <= load <= upper.load and lower.load < upper.load: the divisor
\* is positive and the fraction lies in [0, 1].
C19_PointsBracketLoad ==
    (pc = "lookup" /\ probe # <<>>) =>
        LET load == ClampLoad(LastCall[1], 1)
            lower == LowerPoint(fan_curve, load, 1)
            upper == UpperPoint(fan_curve, load, 1)
        IN  /\ lower[1] <= load
            /\ load <= upper[1]
            /\ lower[1] < upper[1]
            /\ 0 <= load - lower[1]
            /\ load - lower[1] <= upper[1] - lower[1]
            /\ LastCall[2] = Interpolate(upper, lower, load, 1)

C19_Witness ==
    /\ pc = "lookup"
    /\ fan_curve = << <<0, 100>>, <<0, 255>> >>
    /\ probe # <<>>
    /\ LastCall = <<0, 0>>

====
